---- MODULE Spec2Model ----
(***************************************************************************)
(* miajio/nla: the badger engine's lifecycle (pkg/badger: Engine, its two  *)
(* listener goroutines, Close, SetGCInterval) and the participle engine    *)
(* (the trie-indexed dictionary in front of the badger store and the gse   *)
(* segmenter).                                                             *)
(*                                                                         *)
(* LifeSpec is the lifecycle manager with a discrete clock of one second.  *)
(* DictSpec is the dictionary cache.  Strings are sequences of bytes.      *)
(***************************************************************************)
EXTENDS Integers, Sequences, FiniteSets, TLC

VARIABLES
    \* ---- pkg/badger Engine (part_000) ----
    db,                 \* e.db: "set" or "nil"
    dbState,            \* the badger handle behind e.db: "open" or "closed"
    dbCloseErr,         \* what e.db.Close() returned: "none" before it has
    gcTicker,           \* e.gcTicker: NilTicker or a ticker record
    gcInterval,         \* e.gcInterval, in seconds
    gcUpdateChan,       \* e.gcUpdateChan: <<>>, or <<d>> while a sender blocks offering d
    done,               \* e.done: TRUE while a sender is blocked on it
    doneSuccessChain,   \* e.doneSuccessChain: TRUE while a sender is blocked on it
    err,                \* e.err
    lcPc,               \* position of goroutine listenerClose
    gcPc,               \* position of goroutine listenerGC
    closePc,            \* position of the caller of Close
    closeDeadline,      \* when the time.After of the current Close fires
    closeRet,           \* what the last returned Close returned
    closeCalls,         \* number of Close calls made
    setPc,              \* position of the caller of SetGCInterval
    setArg,             \* argument of the last SetGCInterval call
    setCalls,           \* number of SetGCInterval calls made
    retired,            \* the tickers e.gcTicker no longer points to
    lastUpdate,         \* when listenerGC last took an interval from gcUpdateChan, and which
    crashed,            \* the process died of a nil dereference
    now,                \* the clock, in seconds
    \* ---- pkg/participle Engine (part_002) ----
    root,               \* the trie: path from d.root -> TrieNode, <<>> is d.root
    store,              \* the badger key space: key -> stored value
    segDict,            \* the words the gse segmenter was given
    dictPc,             \* "new" before participle.New, "ready" after, "failed" if New failed
    lastOp,             \* the last dictionary operation, its arguments and its result
    opCount,            \* number of AddWord and LearnFromText calls made
    inserted,           \* the contents put into the current tree since it was created
    added,              \* content -> entry of the last successful AddWord of that content
    writeFailed         \* a store write has failed since the current tree was created

lifeVars == <<db, dbState, dbCloseErr, gcTicker, gcInterval, gcUpdateChan, done,
              doneSuccessChain, err, lcPc, gcPc, closePc, closeDeadline,
              closeRet, closeCalls, setPc, setArg, setCalls, retired, lastUpdate, crashed, now>>
dictVars == <<root, store, segDict, dictPc, lastOp, opCount, inserted, added, writeFailed>>
vars == <<lifeVars, dictVars>>

---------------------------------------------------------------------------
\* Bounds of the model.
MaxTime == 6
MaxInterval == 2
MaxSetCalls == 2
MaxCloseCalls == 2
SchedulerResolution == 1

\* Program constants, in seconds.
DefaultGcInterval == 300
CloseTimeout == 5

NilTicker ==
    [created |-> FALSE, active |-> FALSE, period |-> 0,
     nextFire |-> 0, buffered |-> FALSE, bufferedAt |-> 0]
NoUpdate == [at |-> 0 - 1, interval |-> 0]
Intervals == (0 - 1) .. MaxInterval

\* time.NewTicker(d) called at time t: the first tick is due d later.
NewTicker(d, t) ==
    [created |-> TRUE, active |-> TRUE, period |-> d,
     nextFire |-> t + d, buffered |-> FALSE, bufferedAt |-> 0]

\* (*Ticker).Stop: no more ticks are sent; the channel is not drained.
StopTicker(t) == [t EXCEPT !.active = FALSE]

LifeInit ==
    /\ db = "set"
    /\ dbState = "open"
    /\ dbCloseErr = "none"
    /\ gcTicker = NilTicker
    /\ gcInterval = DefaultGcInterval
    /\ gcUpdateChan = <<>>
    /\ done = FALSE
    /\ doneSuccessChain = FALSE
    /\ err = "nil"
    /\ lcPc = "select"
    /\ gcPc = "start"
    /\ closePc = "idle"
    /\ closeDeadline = 0
    /\ closeRet = [via |-> "none", err |-> "nil"]
    /\ closeCalls = 0
    /\ setPc = "idle"
    /\ setArg = 1
    /\ setCalls = 0
    /\ retired = {}
    /\ lastUpdate = NoUpdate
    /\ crashed = FALSE
    /\ now = 0

---------------------------------------------------------------------------
\* The runtime: the clock and the ticker.

\* The ticker's timer is due: a tick goes into its one-slot channel, or is
\* dropped when the slot is full.
TickerFire ==
    /\ ~crashed
    /\ gcTicker.created /\ gcTicker.active
    /\ gcTicker.nextFire = now
    /\ gcTicker' = [gcTicker EXCEPT
                       !.nextFire = now + gcTicker.period,
                       !.buffered = TRUE,
                       !.bufferedAt = IF gcTicker.buffered THEN gcTicker.bufferedAt ELSE now]
    /\ UNCHANGED <<db, dbState, dbCloseErr, gcInterval, gcUpdateChan, done, doneSuccessChain,
                   err, lcPc, gcPc, closePc, closeDeadline, closeRet, closeCalls,
                   setPc, setArg, setCalls, retired, lastUpdate, crashed, now>>
    /\ UNCHANGED dictVars

\* A second passes.  A due ticker fires first, and a goroutine that waits in
\* its select for a tick that is there is scheduled within the resolution.
Advance ==
    /\ ~crashed
    /\ now < MaxTime
    /\ ~(gcTicker.created /\ gcTicker.active /\ gcTicker.nextFire <= now)
    /\ ~(/\ gcPc = "select" /\ gcTicker.created /\ gcTicker.buffered
         /\ now >= gcTicker.bufferedAt + SchedulerResolution)
    /\ now' = now + 1
    /\ UNCHANGED <<db, dbState, dbCloseErr, gcTicker, gcInterval, gcUpdateChan, done,
                   doneSuccessChain, err, lcPc, gcPc, closePc, closeDeadline,
                   closeRet, closeCalls, setPc, setArg, setCalls, retired, lastUpdate, crashed>>
    /\ UNCHANGED dictVars

---------------------------------------------------------------------------
\* goroutine listenerClose

\* case <-e.done: the receive that unblocks the sender in Close, which goes
\* on to its select and starts time.After(5s).
ListenerCloseRecvDone ==
    /\ ~crashed
    /\ lcPc = "select" /\ done
    /\ done' = FALSE
    /\ lcPc' = "dbClose"
    /\ closePc' = "wait"
    /\ closeDeadline' = now + CloseTimeout
    /\ UNCHANGED <<db, dbState, dbCloseErr, gcTicker, gcInterval, gcUpdateChan,
                   doneSuccessChain, err, gcPc, closeRet, closeCalls,
                   setPc, setArg, setCalls, retired, lastUpdate, crashed, now>>
    /\ UNCHANGED dictVars

\* ListenerCloseDbClose without the assignment e.err = err.
ListenerCloseDbCloseDropsErr ==
    /\ ~crashed
    /\ lcPc = "dbClose"
    /\ \E e \in {"nil", "closeErr"} : dbCloseErr' = e
    /\ dbState' = "closed"
    /\ lcPc' = "nilDb"
    /\ UNCHANGED <<db, gcTicker, gcInterval, gcUpdateChan, done, doneSuccessChain,
                   err, gcPc, closePc, closeDeadline, closeRet, closeCalls,
                   setPc, setArg, setCalls, retired, lastUpdate, crashed, now>>
    /\ UNCHANGED dictVars

\* if err := e.db.Close(); err != nil { e.err = err }
ListenerCloseDbClose ==
    /\ ~crashed
    /\ lcPc = "dbClose"
    /\ \E e \in {"nil", "closeErr"} :
          /\ dbCloseErr' = e
          /\ err' = IF e # "nil" THEN e ELSE err
    /\ dbState' = "closed"
    /\ lcPc' = "nilDb"
    /\ UNCHANGED <<db, gcTicker, gcInterval, gcUpdateChan, done, doneSuccessChain,
                   gcPc, closePc, closeDeadline, closeRet, closeCalls,
                   setPc, setArg, setCalls, retired, lastUpdate, crashed, now>>
    /\ UNCHANGED dictVars

\* e.db = nil
ListenerCloseNilDb ==
    /\ ~crashed
    /\ lcPc = "nilDb"
    /\ db' = "nil"
    /\ lcPc' = "stopTicker"
    /\ UNCHANGED <<dbState, dbCloseErr, gcTicker, gcInterval, gcUpdateChan, done,
                   doneSuccessChain, err, gcPc, closePc, closeDeadline, closeRet,
                   closeCalls, setPc, setArg, setCalls, retired, lastUpdate, crashed, now>>
    /\ UNCHANGED dictVars

\* e.gcTicker.Stop(), a nil dereference when listenerGC has not yet stored
\* the ticker; then the goroutine blocks in e.doneSuccessChain <- struct{}{}.
ListenerCloseStopTicker ==
    /\ ~crashed
    /\ lcPc = "stopTicker"
    /\ IF gcTicker.created
          THEN /\ gcTicker' = StopTicker(gcTicker)
               /\ lcPc' = "sendAck"
               /\ doneSuccessChain' = TRUE
               /\ UNCHANGED crashed
          ELSE /\ crashed' = TRUE
               /\ UNCHANGED <<gcTicker, lcPc, doneSuccessChain>>
    /\ UNCHANGED <<db, dbState, dbCloseErr, gcInterval, gcUpdateChan, done, err, gcPc,
                   closePc, closeDeadline, closeRet, closeCalls,
                   setPc, setArg, setCalls, retired, lastUpdate, now>>
    /\ UNCHANGED dictVars

---------------------------------------------------------------------------
\* Engine.Close, called from the application's goroutine

\* e.done <- struct{}{}: the caller blocks until listenerClose receives.
CloseCall ==
    /\ ~crashed
    /\ closePc \in {"idle", "returned"}
    /\ closeCalls < MaxCloseCalls
    /\ closeCalls' = closeCalls + 1
    /\ done' = TRUE
    /\ closePc' = "sendDone"
    /\ UNCHANGED <<db, dbState, dbCloseErr, gcTicker, gcInterval, gcUpdateChan,
                   doneSuccessChain, err, lcPc, gcPc, closeDeadline, closeRet,
                   setPc, setArg, setCalls, retired, lastUpdate, crashed, now>>
    /\ UNCHANGED dictVars

\* case <-e.doneSuccessChain: return e.err
CloseRecvAck ==
    /\ ~crashed
    /\ closePc = "wait" /\ doneSuccessChain
    /\ doneSuccessChain' = FALSE
    /\ lcPc' = "exited"
    /\ closeRet' = [via |-> "ack", err |-> err]
    /\ closePc' = "returned"
    /\ UNCHANGED <<db, dbState, dbCloseErr, gcTicker, gcInterval, gcUpdateChan, done, err,
                   gcPc, closeDeadline, closeCalls, setPc, setArg, setCalls,
                   retired, lastUpdate, crashed, now>>
    /\ UNCHANGED dictVars

\* case <-time.After(time.Second * 5): e.err = errors.New(...)
CloseTimeoutFires ==
    /\ ~crashed
    /\ closePc = "wait" /\ now >= closeDeadline
    /\ err' = "timeoutErr"
    /\ closePc' = "timeoutRet"
    /\ UNCHANGED <<db, dbState, dbCloseErr, gcTicker, gcInterval, gcUpdateChan, done,
                   doneSuccessChain, lcPc, gcPc, closeDeadline, closeRet,
                   closeCalls, setPc, setArg, setCalls, retired, lastUpdate, crashed, now>>
    /\ UNCHANGED dictVars

\* return e.err, a read of the field listenerClose may write meanwhile.
CloseTimeoutReturn ==
    /\ ~crashed
    /\ closePc = "timeoutRet"
    /\ closeRet' = [via |-> "timeout", err |-> err]
    /\ closePc' = "returned"
    /\ UNCHANGED <<db, dbState, dbCloseErr, gcTicker, gcInterval, gcUpdateChan, done,
                   doneSuccessChain, err, lcPc, gcPc, closeDeadline,
                   closeCalls, setPc, setArg, setCalls, retired, lastUpdate, crashed, now>>
    /\ UNCHANGED dictVars

---------------------------------------------------------------------------
\* goroutine listenerGC

\* e.gcTicker = time.NewTicker(e.gcInterval)
ListenerGCStart ==
    /\ ~crashed
    /\ gcPc = "start"
    /\ gcTicker' = NewTicker(gcInterval, now)
    /\ gcPc' = "select"
    /\ UNCHANGED <<db, dbState, dbCloseErr, gcInterval, gcUpdateChan, done, doneSuccessChain,
                   err, lcPc, closePc, closeDeadline, closeRet, closeCalls,
                   setPc, setArg, setCalls, retired, lastUpdate, crashed, now>>
    /\ UNCHANGED dictVars

\* case <-e.gcTicker.C
ListenerGCRecvTick ==
    /\ ~crashed
    /\ gcPc = "select"
    /\ gcTicker.buffered
    /\ gcTicker' = [gcTicker EXCEPT !.buffered = FALSE, !.bufferedAt = 0]
    /\ gcPc' = "tick"
    /\ UNCHANGED <<db, dbState, dbCloseErr, gcInterval, gcUpdateChan, done, doneSuccessChain,
                   err, lcPc, closePc, closeDeadline, closeRet, closeCalls,
                   setPc, setArg, setCalls, retired, lastUpdate, crashed, now>>
    /\ UNCHANGED dictVars

\* e.db.RunValueLogGC(0.5): the call, a nil dereference when e.db is nil.
ListenerGCRunValueLogGC ==
    /\ ~crashed
    /\ gcPc = "tick"
    /\ IF db = "nil"
          THEN crashed' = TRUE /\ UNCHANGED gcPc
          ELSE gcPc' = "inGC" /\ UNCHANGED crashed
    /\ UNCHANGED <<db, dbState, dbCloseErr, gcTicker, gcInterval, gcUpdateChan, done,
                   doneSuccessChain, err, lcPc, closePc, closeDeadline, closeRet,
                   closeCalls, setPc, setArg, setCalls, retired, lastUpdate, now>>
    /\ UNCHANGED dictVars

\* RunValueLogGC returns; its error is dropped and the loop selects again.
ListenerGCReturn ==
    /\ ~crashed
    /\ gcPc = "inGC"
    /\ gcPc' = "select"
    /\ UNCHANGED <<db, dbState, dbCloseErr, gcTicker, gcInterval, gcUpdateChan, done,
                   doneSuccessChain, err, lcPc, closePc, closeDeadline, closeRet,
                   closeCalls, setPc, setArg, setCalls, retired, lastUpdate, crashed, now>>
    /\ UNCHANGED dictVars

\* updateGcInterval that stores the interval and leaves the ticker running.
updateGcIntervalKeepsTicker(newGcInterval) ==
    /\ gcInterval' = newGcInterval
    /\ UNCHANGED <<retired, gcTicker>>

\* updateGcInterval: the interval is stored, the ticker stopped and a new one
\* started.
updateGcInterval(newGcInterval) ==
    /\ gcInterval' = newGcInterval
    /\ retired' = retired \cup {[active |-> StopTicker(gcTicker).active]}
    /\ gcTicker' = NewTicker(newGcInterval, now)

\* case newGcInterval := <-e.gcUpdateChan: the receive that unblocks the
\* sender in SetGCInterval.
ListenerGCRecvUpdate ==
    /\ ~crashed
    /\ gcPc = "select"
    /\ gcUpdateChan # <<>>
    /\ updateGcInterval(Head(gcUpdateChan))
    /\ lastUpdate' = [at |-> now, interval |-> Head(gcUpdateChan)]
    /\ gcUpdateChan' = <<>>
    /\ setPc' = "idle"
    /\ UNCHANGED <<db, dbState, dbCloseErr, done, doneSuccessChain, err, lcPc, gcPc, closePc,
                   closeDeadline, closeRet, closeCalls, setArg, setCalls,
                   crashed, now>>
    /\ UNCHANGED dictVars

---------------------------------------------------------------------------
\* Engine.SetGCInterval, called from another goroutine of the application

\* SetGCInterval with the guard 0 > interval.
SetGCIntervalAcceptsZero(interval) ==
    /\ ~crashed
    /\ setPc = "idle"
    /\ setCalls < MaxSetCalls
    /\ setCalls' = setCalls + 1
    /\ setArg' = interval
    /\ IF 0 > interval
          THEN UNCHANGED <<gcUpdateChan, setPc>>
          ELSE gcUpdateChan' = <<interval>> /\ setPc' = "send"
    /\ UNCHANGED <<db, dbState, dbCloseErr, gcTicker, gcInterval, done, doneSuccessChain,
                   err, lcPc, gcPc, closePc, closeDeadline, closeRet, closeCalls,
                   retired, lastUpdate, crashed, now>>
    /\ UNCHANGED dictVars

SetGCInterval(interval) ==
    /\ ~crashed
    /\ setPc = "idle"
    /\ setCalls < MaxSetCalls
    /\ setCalls' = setCalls + 1
    /\ setArg' = interval
    /\ IF 0 >= interval
          THEN UNCHANGED <<gcUpdateChan, setPc>>
          ELSE gcUpdateChan' = <<interval>> /\ setPc' = "send"
    /\ UNCHANGED <<db, dbState, dbCloseErr, gcTicker, gcInterval, done, doneSuccessChain,
                   err, lcPc, gcPc, closePc, closeDeadline, closeRet, closeCalls,
                   retired, lastUpdate, crashed, now>>
    /\ UNCHANGED dictVars

SetGCIntervalCall == \E interval \in Intervals : SetGCInterval(interval)

---------------------------------------------------------------------------
\* pkg/participle: strings.  A Go string is a sequence of bytes.

\* The strings of the model.
WBei == <<229, 140, 151>>
WBeijing == <<229, 140, 151, 228, 186, 172>>
WWo == <<230, 136, 145>>
WAi == <<231, 136, 177>>
WTiananmen == <<229, 164, 169, 229, 174, 137, 233, 151, 168>>
WComma == <<239, 188, 140>>
WBangs == <<33, 33>>
WA == <<97>>
WMixed == <<97, 45, 98>>
WEmpty == <<>>
WBad == <<97, 255>>

\* The one element of a singleton set.  {F(x) : x \in {e}} computes e once.
The(S) == CHOOSE x \in S : TRUE

\* utf8.DecodeRuneInString(s[i-1:]), with i counted from 1: the rune that
\* starts at byte i of s and its width in bytes; an invalid or short
\* encoding is (RuneError, 1).
RuneError == 65533

IsCont(s, i, lo, hi) == i <= Len(s) /\ s[i] >= lo /\ s[i] <= hi

DecodeRuneAt(s, i) ==
    IF i > Len(s) THEN [rune |-> RuneError, size |-> 0]
    ELSE LET b == s[i]
             lo2 == IF b = 224 THEN 160 ELSE IF b = 240 THEN 144 ELSE 128
             hi2 == IF b = 237 THEN 159 ELSE IF b = 244 THEN 143 ELSE 191
             bad == [rune |-> RuneError, size |-> 1]
         IN  IF b < 128 THEN [rune |-> b, size |-> 1]
             ELSE IF b >= 194 /\ b <= 223 THEN
                 IF IsCont(s, i + 1, 128, 191)
                    THEN [rune |-> (b - 192) * 64 + (s[i + 1] - 128), size |-> 2]
                    ELSE bad
             ELSE IF b >= 224 /\ b <= 239 THEN
                 IF IsCont(s, i + 1, lo2, hi2) /\ IsCont(s, i + 2, 128, 191)
                    THEN [rune |-> (b - 224) * 4096 + (s[i + 1] - 128) * 64
                                   + (s[i + 2] - 128),
                          size |-> 3]
                    ELSE bad
             ELSE IF b >= 240 /\ b <= 244 THEN
                 IF /\ IsCont(s, i + 1, lo2, hi2) /\ IsCont(s, i + 2, 128, 191)
                    /\ IsCont(s, i + 3, 128, 191)
                    THEN [rune |-> (b - 240) * 262144 + (s[i + 1] - 128) * 4096
                                   + (s[i + 2] - 128) * 64 + (s[i + 3] - 128),
                          size |-> 4]
                    ELSE bad
             ELSE bad

\* SplitString: s cut into its characters, each the bytes of one rune.  The
\* loop keeps the rest of s; here it keeps the index i where the rest starts.
RECURSIVE SplitFrom(_, _)
SplitFrom(s, i) ==
    IF i > Len(s) THEN <<>>
    ELSE The({<<SubSeq(s, i, j - 1)>> \o SplitFrom(s, j)
              : j \in {i + DecodeRuneAt(s, i).size}})

SplitString(s) == SplitFrom(s, 1)

\* The runes of s, as the regexp engine reads them.
RECURSIVE RunesFrom(_, _)
RunesFrom(s, i) ==
    IF i > Len(s) THEN <<>>
    ELSE The({<<d.rune>> \o RunesFrom(s, i + d.size) : d \in {DecodeRuneAt(s, i)}})

Runes(s) == RunesFrom(s, 1)

\* utf8.ValidString
RECURSIVE ValidFrom(_, _)
ValidFrom(s, i) ==
    IF i > Len(s) THEN TRUE
    ELSE The({~(d.rune = RuneError /\ d.size = 1) /\ ValidFrom(s, i + d.size)
              : d \in {DecodeRuneAt(s, i)}})

ValidString(s) == ValidFrom(s, 1)

\* The Unicode general categories P, S and Z, on the runes of the model:
\* ASCII punctuation, symbols and the space, the ideographic space and
\* punctuation (U+3000..U+303F), the fullwidth forms' punctuation
\* (U+FF01..U+FF0F) and U+FFFD (So).
IsPSZ(r) ==
    \/ r = 32
    \/ r >= 33 /\ r <= 47
    \/ r >= 58 /\ r <= 64
    \/ r >= 91 /\ r <= 96
    \/ r >= 123 /\ r <= 126
    \/ r >= 12288 /\ r <= 12291
    \/ r >= 65281 /\ r <= 65295
    \/ r = RuneError

\* IsSpecialChar: regexp [\p{P}\p{S}\p{Z}]+ MatchString, which is true when
\* the pattern matches anywhere in s.
IsSpecialChar(s) ==
    IF s = <<>> THEN FALSE
    ELSE The({\E i \in 1 .. Len(rs) : IsPSZ(rs[i]) : rs \in {Runes(s)}})

---------------------------------------------------------------------------
\* pkg/participle: DictEntry, TrieNode and the JSON codec.

DictEntry(content, frequency, pos) ==
    [Content |-> content, Frequency |-> frequency, Pos |-> pos]

\* A new node that is terminal and holds no entry.
NewTrieNodeTerminal == [IsEnd |-> TRUE, Entry |-> <<>>]

\* NewTrieNode: no children, IsEnd false, Entry nil (<<>>; <<e>> points to e).
NewTrieNode == [IsEnd |-> FALSE, Entry |-> <<>>]

\* A tree is its nodes by the path of map keys that leads to them from the
\* root: node p has the child c in Children iff Append(p, c) is a node.
EmptyTrie == (<<>> :> NewTrieNode)

\* One turn of the loop of insertIntoTrieAndDB and loadDictionaryFromDB: the
\* child of node under char, created if it is missing.
ChildOrNew(t, node, char) ==
    [t |-> IF Append(node, char) \in DOMAIN t THEN t
           ELSE t @@ (Append(node, char) :> NewTrieNode),
     node |-> Append(node, char)]

\* The loop: walk from node along chars, from the i-th on.
RECURSIVE WalkCreate(_, _, _, _)
WalkCreate(t, node, chars, i) ==
    IF i > Len(chars) THEN [t |-> t, node |-> node]
    ELSE The({WalkCreate(x.t, x.node, chars, i + 1) : x \in {ChildOrNew(t, node, chars[i])}})

\* TrieInsert that leaves the entry of a node that is already terminal.
TrieInsertKeepsFirst(t, content, entry) ==
    The({IF w.t[w.node].IsEnd THEN w.t
         ELSE [w.t EXCEPT ![w.node] = [IsEnd |-> TRUE, Entry |-> <<entry>>]]
         : w \in {The({WalkCreate(t, <<>>, chars, 1) : chars \in {SplitString(content)}})}})

\* node.IsEnd = true; node.Entry = &entry, at the end of the walk.
TrieInsert(t, content, entry) ==
    The({[w.t EXCEPT ![w.node] = [IsEnd |-> TRUE, Entry |-> <<entry>>]]
         : w \in {The({WalkCreate(t, <<>>, chars, 1) : chars \in {SplitString(content)}})}})

\* The loop of containsWord, from the i-th character on.
RECURSIVE WalkFind(_, _, _, _)
WalkFind(t, node, chars, i) ==
    IF i > Len(chars) THEN t[node].IsEnd
    ELSE IF Append(node, chars[i]) \notin DOMAIN t THEN FALSE
    ELSE The({WalkFind(t, child, chars, i + 1) : child \in {Append(node, chars[i])}})

\* containsWord that returns true at the end of the path, terminal or not.
containsWordIgnoresIsEnd(t, content) == SplitString(content) \in DOMAIN t

containsWord(t, content) ==
    The({WalkFind(t, <<>>, chars, 1) : chars \in {SplitString(content)}})

\* encoding/json writes a string with each invalid byte replaced by U+FFFD.
RECURSIVE ToValidFrom(_, _)
ToValidFrom(s, i) ==
    IF i > Len(s) THEN <<>>
    ELSE The({(IF d.rune = RuneError /\ d.size = 1
                  THEN <<239, 191, 189>>
                  ELSE SubSeq(s, i, i + d.size - 1)) \o ToValidFrom(s, i + d.size)
              : d \in {DecodeRuneAt(s, i)}})

ToValidUTF8(s) == ToValidFrom(s, 1)

\* A stored value that is not the JSON of an entry.
Garbage == [json |-> FALSE, content |-> <<>>, frequency |-> "0", pos |-> ""]

\* json.Marshal(entry): an error for a frequency that is NaN.
jsonMarshal(entry) ==
    IF entry.Frequency = "NaN"
       THEN [err |-> TRUE, data |-> Garbage]
       ELSE [err |-> FALSE,
             data |-> [json |-> TRUE, content |-> ToValidUTF8(entry.Content),
                       frequency |-> entry.Frequency, pos |-> entry.Pos]]

\* json.Unmarshal(val, &entry)
jsonUnmarshal(val) ==
    IF val.json
       THEN [err |-> FALSE, entry |-> DictEntry(val.content, val.frequency, val.pos)]
       ELSE [err |-> TRUE, entry |-> DictEntry(<<>>, "0", "")]

---------------------------------------------------------------------------
\* pkg/participle: the engine's operations, as functions of the tree t, the
\* store kv and the segmenter's dictionary seg.

\* Set that reports success and writes nothing.
SetDropsWrite(kv, key, value, setFails) ==
    [store |-> kv, err |-> setFails \/ key = <<>>]

\* Engine.Set of pkg/badger: one key written in one transaction.  setFails
\* is the transaction failing; badger refuses an empty key.
Set(kv, key, value, setFails) ==
    IF setFails \/ key = <<>>
       THEN [store |-> kv, err |-> TRUE]
       ELSE [store |-> [k \in DOMAIN kv \cup {key} |-> IF k = key THEN value ELSE kv[k]],
             err |-> FALSE]

\* insertIntoTrieAndDB: the tree first, then json.Marshal, then Set.
insertIntoTrieAndDB(t, kv, content, entry, setFails) ==
    The({IF m.err
            THEN [root |-> t2, store |-> kv, err |-> TRUE]
            ELSE The({[root |-> t2, store |-> w.store, err |-> w.err]
                      : w \in {Set(kv, content, m.data, setFails)}})
         : t2 \in {TrieInsert(t, content, entry)}, m \in {jsonMarshal(entry)}})

\* gse's AddToken: the token is in the segmenter's dictionary.
AddToken(seg, text, frequency, pos) ==
    seg \cup {[Text |-> text, Frequency |-> frequency, Pos |-> pos]}

\* AddWord that updates the segmenter whether insertIntoTrieAndDB failed or not.
AddWordAlwaysAddsToken(t, kv, seg, content, frequency, pos, setFails) ==
    The({[root |-> r.root, store |-> r.store,
          seg |-> AddToken(seg, content, frequency, pos), err |-> r.err]
         : r \in {insertIntoTrieAndDB(t, kv, content,
                                      DictEntry(content, frequency, pos), setFails)}})

\* AddWord: insertIntoTrieAndDB, and AddToken unless that failed.
AddWord(t, kv, seg, content, frequency, pos, setFails) ==
    The({IF r.err
            THEN [root |-> r.root, store |-> r.store, seg |-> seg, err |-> TRUE]
            ELSE [root |-> r.root, store |-> r.store,
                  seg |-> AddToken(seg, content, frequency, pos), err |-> FALSE]
         : r \in {insertIntoTrieAndDB(t, kv, content,
                                      DictEntry(content, frequency, pos), setFails)}})

\* LearnStep without the containsWord test.
LearnStepAddsKnownWords(st, content, failAt) ==
    IF Len(content) <= 1 \/ IsSpecialChar(content) THEN st
    ELSE The({[root |-> r.root, store |-> r.store, seg |-> r.seg,
               learned |-> Append(st.learned, content), err |-> r.err]
              : r \in {AddWord(st.root, st.store, st.seg, content, "1000", "nz",
                               Len(st.learned) + 1 = failAt)}})

\* One turn of the loop of LearnFromText, for the token content.  st.learned
\* lists the contents passed to AddWord so far; the failAt-th AddWord call
\* is the one whose store write fails (0: none does).
LearnStep(st, content, failAt) ==
    IF Len(content) <= 1 \/ IsSpecialChar(content) THEN st
    ELSE IF ~containsWord(st.root, content)
       THEN The({[root |-> r.root, store |-> r.store, seg |-> r.seg,
                  learned |-> Append(st.learned, content), err |-> r.err]
                 : r \in {AddWord(st.root, st.store, st.seg, content, "1000", "nz",
                                  Len(st.learned) + 1 = failAt)}})
    ELSE st

\* LearnLoop that goes on after an AddWord error.
RECURSIVE LearnLoopIgnoresError(_, _, _, _)
LearnLoopIgnoresError(st, contents, i, failAt) ==
    IF i > Len(contents) THEN st
    ELSE The({LearnLoopIgnoresError(x, contents, i + 1, failAt)
              : x \in {LearnStep(st, contents[i], failAt)}})

\* The loop of LearnFromText over the segmenter's tokens, from the i-th on;
\* an AddWord error returns.
RECURSIVE LearnLoop(_, _, _, _)
LearnLoop(st, contents, i, failAt) ==
    IF i > Len(contents) \/ st.err THEN st
    ELSE The({LearnLoop(x, contents, i + 1, failAt)
              : x \in {LearnStep(st, contents[i], failAt)}})

LearnFromText(t, kv, seg, contents, failAt) ==
    LearnLoop([root |-> t, store |-> kv, seg |-> seg, learned |-> <<>>, err |-> FALSE],
              contents, 1, failAt)

\* The order of badger's iterator: keys in byte order.
RECURSIVE KeyLess(_, _)
KeyLess(a, b) ==
    IF a = <<>> THEN b # <<>>
    ELSE IF b = <<>> THEN FALSE
    ELSE IF Head(a) # Head(b) THEN Head(a) < Head(b)
    ELSE KeyLess(Tail(a), Tail(b))

FirstKey(keys) == CHOOSE k \in keys : \A o \in keys \ {k} : KeyLess(k, o)

\* LoadLoop that passes over a record that does not decode.
RECURSIVE LoadLoopSkipsBadRecord(_, _, _, _)
LoadLoopSkipsBadRecord(t, kv, keys, scanned) ==
    IF keys = {} THEN [root |-> t, err |-> FALSE, scanned |-> scanned]
    ELSE The({IF u.err
                 THEN LoadLoopSkipsBadRecord(t, kv, keys \ {key}, scanned)
                 ELSE The({LoadLoopSkipsBadRecord(t2, kv, keys \ {key}, scanned \cup {key})
                           : t2 \in {TrieInsert(t, key, u.entry)}})
              : key \in {FirstKey(keys)}, u \in {jsonUnmarshal(kv[FirstKey(keys)])}})

\* loadDictionaryFromDB: every record of the store, in key order, decoded and
\* put into the tree under its key; the first record that does not decode
\* ends the scan with its error.
RECURSIVE LoadLoop(_, _, _, _)
LoadLoop(t, kv, keys, scanned) ==
    IF keys = {} THEN [root |-> t, err |-> FALSE, scanned |-> scanned]
    ELSE The({IF u.err
                 THEN [root |-> t, err |-> TRUE, scanned |-> scanned]
                 ELSE The({LoadLoop(t2, kv, keys \ {key}, scanned \cup {key})
                           : t2 \in {TrieInsert(t, key, u.entry)}})
              : key \in {FirstKey(keys)}, u \in {jsonUnmarshal(kv[FirstKey(keys)])}})

loadDictionaryFromDB(kv) == LoadLoop(EmptyTrie, kv, DOMAIN kv, {})

\* fmt's %f of the frequencies of the model, and gse's reading of it.
FormatFloat(f) ==
    CASE f = "500" -> "500.000000"
      [] f = "600" -> "600.000000"
      [] f = "1000" -> "1000.000000"
      [] OTHER -> f

ParseFloat(x) ==
    CASE x = "500.000000" -> "500"
      [] x = "600.000000" -> "600"
      [] x = "1000.000000" -> "1000"
      [] OTHER -> x

\* loadDictionaryFromTrie: one line "content frequency pos" per node that
\* ends a word, and one LoadDictStr call for all of them if there are any.
DictLines(t) ==
    {[content |-> t[n].Entry[1].Content,
      frequency |-> FormatFloat(t[n].Entry[1].Frequency),
      pos |-> t[n].Entry[1].Pos] : n \in {m \in DOMAIN t : t[m].IsEnd /\ t[m].Entry # <<>>}}

LoadDictStr(seg, lines) ==
    seg \cup {[Text |-> l.content, Frequency |-> ParseFloat(l.frequency), Pos |-> l.pos]
              : l \in lines}

\* collectContents: the traversal comes to every node once and gives one
\* line for a node that ends a word and holds an entry.
collectContents(t) ==
    [n \in {m \in DOMAIN t : t[m].IsEnd /\ t[m].Entry # <<>>} |->
        [content |-> t[n].Entry[1].Content,
         frequency |-> FormatFloat(t[n].Entry[1].Frequency),
         pos |-> t[n].Entry[1].Pos]]

\* The LoadDictStr calls loadDictionaryFromTrie makes: if len(contents) > 0.
LoadDictStrCalls(t) == IF DOMAIN collectContents(t) # {} THEN 1 ELSE 0

\* loadDictionaryFromTrie that never loads the segmenter.
loadDictionaryFromTrieNoLoad(t, seg) == seg

loadDictionaryFromTrie(t, seg) ==
    IF DictLines(t) # {} THEN LoadDictStr(seg, DictLines(t)) ELSE seg

---------------------------------------------------------------------------
\* pkg/participle: the state machine of one dictionary over one store.

\* What the application passes in, and what the segmenter cuts.
AddWordContents == {WBeijing, WBei, WEmpty, WBad}
Frequencies == {"500", "600", "NaN"}
TokenLists == {<<WWo, WAi, WBeijing, WTiananmen>>,
               <<WBeijing, WComma, WBeijing>>,
               <<WA, WBangs, WMixed>>}
MaxOps == 3

\* What the store may hold before the dictionary is opened on it: a
\* dictionary written by AddWord, and records other users of the store wrote.
InitialStores ==
    {(WBeijing :> jsonMarshal(DictEntry(WBeijing, "500", "ns")).data),
     (WBei :> jsonMarshal(DictEntry(WBeijing, "600", "ns")).data),
     (WA :> jsonMarshal(DictEntry(WA, "500", "ns")).data) @@ (WMixed :> Garbage),
     (WA :> Garbage) @@ (WBeijing :> jsonMarshal(DictEntry(WBeijing, "500", "ns")).data)}

NoOp == [op |-> "none", content |-> <<>>, frequency |-> "", pos |-> "",
         before |-> <<>>, contents |-> <<>>, failAt |-> 0, learned |-> <<>>,
         err |-> FALSE]

DictInit ==
    /\ root = EmptyTrie
    /\ store = <<>>
    /\ segDict = {}
    /\ dictPc = "new"
    /\ lastOp = NoOp
    /\ opCount = 0
    /\ inserted = {}
    /\ added = <<>>
    /\ writeFailed = FALSE

\* Engine.Set and its siblings of pkg/badger, used by whoever filled the
\* store before the dictionary is opened on it.
SeedStore ==
    /\ dictPc = "new"
    /\ store = <<>>
    /\ opCount = 0
    /\ store' \in InitialStores
    /\ UNCHANGED <<root, segDict, dictPc, lastOp, opCount, inserted, added, writeFailed>>
    /\ UNCHANGED lifeVars

\* participle.New: the tree from the store, then the segmenter from the tree.
New ==
    /\ dictPc = "new"
    /\ \E l \in {loadDictionaryFromDB(store)} :
           /\ root' = l.root
           /\ inserted' = l.scanned
           /\ dictPc' = IF l.err THEN "failed" ELSE "ready"
           /\ segDict' = IF l.err THEN segDict ELSE loadDictionaryFromTrie(l.root, segDict)
           /\ lastOp' = [NoOp EXCEPT !.op = "New", !.err = l.err]
    /\ UNCHANGED <<store, opCount, added, writeFailed>>
    /\ UNCHANGED lifeVars

\* The process ends and starts again over the same store.
Restart ==
    /\ dictPc \in {"ready", "failed"}
    /\ dictPc' = "new"
    /\ root' = EmptyTrie
    /\ segDict' = {}
    /\ inserted' = {}
    /\ lastOp' = [NoOp EXCEPT !.op = "Restart"]
    /\ writeFailed' = FALSE
    /\ UNCHANGED <<store, opCount, added>>
    /\ UNCHANGED lifeVars

AddWordCall ==
    /\ dictPc = "ready"
    /\ opCount < MaxOps
    /\ \E content \in AddWordContents, frequency \in Frequencies, setFails \in BOOLEAN :
          \E r \in {AddWord(root, store, segDict, content, frequency, "ns", setFails)} :
              /\ root' = r.root
              /\ store' = r.store
              /\ segDict' = r.seg
              /\ inserted' = inserted \cup {content}
              /\ added' = IF r.err THEN added
                          ELSE [c \in DOMAIN added \cup {content} |->
                                   IF c = content THEN DictEntry(content, frequency, "ns")
                                   ELSE added[c]]
              /\ lastOp' = [NoOp EXCEPT !.op = "AddWord", !.content = content,
                                        !.frequency = frequency, !.pos = "ns",
                                        !.before = IF /\ content \in DOMAIN added
                                                      /\ containsWord(root, content)
                                                      THEN root[SplitString(content)].Entry
                                                      ELSE <<>>,
                                        !.err = r.err]
              /\ writeFailed' = (writeFailed \/ (r.err /\ ~jsonMarshal(DictEntry(content, frequency, "ns")).err))
    /\ opCount' = opCount + 1
    /\ UNCHANGED dictPc
    /\ UNCHANGED lifeVars

LearnFromTextCall ==
    /\ dictPc = "ready"
    /\ opCount < MaxOps
    /\ \E contents \in TokenLists, failAt \in 0 .. 2 :
          \E r \in {LearnFromText(root, store, segDict, contents, failAt)} :
          \E ok \in {{r.learned[i] : i \in 1 .. (IF r.err THEN Len(r.learned) - 1
                                                         ELSE Len(r.learned))}} :
              /\ root' = r.root
              /\ store' = r.store
              /\ segDict' = r.seg
              /\ inserted' = inserted \cup {r.learned[i] : i \in 1 .. Len(r.learned)}
              /\ added' = [c \in DOMAIN added \cup ok |->
                              IF c \in ok THEN DictEntry(c, "1000", "nz") ELSE added[c]]
              /\ lastOp' = [NoOp EXCEPT !.op = "LearnFromText", !.contents = contents,
                                        !.failAt = failAt,
                                        !.learned = r.learned, !.err = r.err]
              /\ writeFailed' = (writeFailed \/ r.err)
    /\ opCount' = opCount + 1
    /\ UNCHANGED dictPc
    /\ UNCHANGED lifeVars

DictNext ==
    \/ SeedStore
    \/ New
    \/ Restart
    \/ AddWordCall
    \/ LearnFromTextCall

Init == LifeInit /\ DictInit

LifeNext ==
    \/ TickerFire
    \/ Advance
    \/ ListenerCloseRecvDone
    \/ ListenerCloseDbClose
    \/ ListenerCloseNilDb
    \/ ListenerCloseStopTicker
    \/ CloseCall
    \/ CloseRecvAck
    \/ CloseTimeoutFires
    \/ CloseTimeoutReturn
    \/ ListenerGCStart
    \/ ListenerGCRecvTick
    \/ ListenerGCRunValueLogGC
    \/ ListenerGCReturn
    \/ ListenerGCRecvUpdate
    \/ SetGCIntervalCall

LifeSpec == Init /\ [][LifeNext]_vars

DictSpec == Init /\ [][DictNext]_vars

\* The goroutines are scheduled fairly, the clock runs and a call that is
\* going to be made is made.
LifeFairSpec ==
    /\ LifeSpec
    /\ WF_vars(TickerFire)
    /\ WF_vars(Advance)
    /\ WF_vars(ListenerCloseRecvDone)
    /\ WF_vars(ListenerCloseDbClose)
    /\ WF_vars(ListenerCloseNilDb)
    /\ WF_vars(ListenerCloseStopTicker)
    /\ WF_vars(CloseRecvAck \/ CloseTimeoutFires)
    /\ WF_vars(CloseTimeoutReturn)
    /\ WF_vars(ListenerGCStart)
    /\ WF_vars(ListenerGCRecvTick \/ ListenerGCRecvUpdate)
    /\ WF_vars(ListenerGCRunValueLogGC)
    /\ WF_vars(ListenerGCReturn)

---------------------------------------------------------------------------
\* Claims about the lifecycle manager.

\* C1: the handle is closed and the close error recorded before the
\* acknowledgement is sent, so a Close that returned through the
\* acknowledgement branch returned what e.db.Close() returned (nil if clean)
\* and the handle is closed.
CloseAckReturnsCloseError ==
    /\ (lcPc \in {"sendAck", "exited"} \/ doneSuccessChain) =>
          /\ dbState = "closed"
          /\ dbCloseErr # "none"
          /\ dbCloseErr = "closeErr" => err # "nil"
    /\ closeRet.via = "ack" =>
          /\ dbState = "closed"
          /\ closeRet.err = dbCloseErr

CloseAckWithCloseErrorReached ==
    closeRet.via = "ack" /\ closeRet.err = "closeErr" /\ dbState = "closed"

\* C2: a Close that returned through the timeout branch returned the
\* dedicated close-timeout error.
CloseTimeoutReturnsTimeoutError ==
    closeRet.via = "timeout" => closeRet.err = "timeoutErr"

\* The shutdown request has been handled: the handle is closed, e.db cleared
\* and the ticker stopped.
Closed == dbState = "closed" /\ lcPc \in {"sendAck", "exited"}

\* C3: once the shutdown request has been handled and the state is Closed,
\* listenerGC takes no tick and calls RunValueLogGC no more.
NoTickAfterClosed ==
    [][Closed => /\ ~(gcPc = "select" /\ gcPc' = "tick")
                 /\ ~(gcPc = "tick" /\ (gcPc' = "inGC" \/ crashed'))]_vars

\* C4: once Close has returned, with either outcome, both listener
\* goroutines eventually terminate (the death of the process ends them too).
\* listenerGC's for/select has no return, so gcPc is never "exited".
LoopsTerminateAfterClose ==
    (closeRet.via # "none") ~> (crashed \/ (lcPc = "exited" /\ gcPc = "exited"))

\* C5: SetGCInterval(d) with d <= 0 returns at once and changes nothing: no
\* send on gcUpdateChan, the interval, the ticker and its countdown as they
\* were, no error recorded.
NonPositiveIntervalIsNoOp ==
    [][(setCalls' # setCalls /\ setArg' <= 0) =>
          /\ setPc' = "idle"
          /\ UNCHANGED <<gcInterval, gcTicker, gcUpdateChan, err, retired,
                         lastUpdate, gcPc, lcPc, closePc, db, dbState, now>>]_vars

NonPositiveIntervalCallReached ==
    /\ setCalls > 0 /\ setArg = 0 /\ setPc = "idle"
    /\ gcTicker.created /\ gcTicker.active

\* C6: once listenerGC has taken the interval d at time t: the stored
\* interval is d, every replaced ticker is stopped, the running ticker has
\* period d and counts from t, so that no tick is delivered or processed
\* before t + d (in particular none by the update itself), the first tick is
\* delivered at t + d and taken by the waiting loop no later than t + d plus
\* the scheduler resolution.
IntervalUpdateTakesEffect ==
    /\ \A t \in retired : ~t.active
    /\ lastUpdate.at >= 0 =>
          /\ gcInterval = lastUpdate.interval
          /\ gcTicker.period = lastUpdate.interval
          /\ gcTicker.nextFire >= lastUpdate.at + lastUpdate.interval
          /\ gcTicker.buffered =>
                gcTicker.bufferedAt >= lastUpdate.at + lastUpdate.interval
          /\ gcPc \in {"tick", "inGC"} => now >= lastUpdate.at + lastUpdate.interval
          /\ (gcTicker.active /\ gcTicker.nextFire = lastUpdate.at + lastUpdate.interval)
                => now <= lastUpdate.at + lastUpdate.interval
          /\ (gcTicker.buffered /\ gcTicker.nextFire = lastUpdate.at + 2 * lastUpdate.interval)
                => /\ gcTicker.bufferedAt = lastUpdate.at + lastUpdate.interval
                   /\ gcPc = "select"
                   /\ now <= lastUpdate.at + lastUpdate.interval + SchedulerResolution

FirstTickAfterUpdateReached ==
    /\ lastUpdate.at >= 0 /\ lastUpdate.interval = 2
    /\ retired # {}
    /\ gcPc = "tick" /\ now = lastUpdate.at + lastUpdate.interval
    /\ dbState = "open"

---------------------------------------------------------------------------
\* Claims about the dictionary cache.

\* Content the data model allows: non-empty, well-formed text.
ValidContent(c) == c # <<>> /\ ValidString(c)

\* C7: after a successful AddWord(content, frequency, tag) with valid
\* arguments, a fresh New over the same store builds a tree in which
\* containsWord(content) is true and the entry at the terminal node of
\* content equals the entry that was added.
AddWordRoundTrip ==
    (dictPc = "ready" /\ lastOp.op = "New") =>
        \A c \in DOMAIN added :
            ValidContent(c) =>
                /\ containsWord(root, c)
                /\ root[SplitString(c)].Entry = <<added[c]>>

RestartAfterAddWordReached ==
    /\ dictPc = "ready" /\ lastOp.op = "New"
    /\ WBeijing \in DOMAIN added
    /\ added[WBeijing] = DictEntry(WBeijing, "600", "ns")
    /\ containsWord(root, WBeijing)

\* The terminal nodes of t whose path spells content.
RECURSIVE Flatten(_)
Flatten(path) == IF path = <<>> THEN <<>> ELSE Head(path) \o Flatten(Tail(path))

TerminalsFor(t, content) == {p \in DOMAIN t : t[p].IsEnd /\ Flatten(p) = content}

\* C8: a successful AddWord of a content that was added before with another
\* frequency leaves exactly one terminal node for the content, holding the
\* second entry; the tree has the same nodes as after the first insert, the
\* other nodes are as they were, and the store holds one record under the
\* key, the second entry's.
SecondInsertOverwrites ==
    [][(/\ lastOp'.op = "AddWord" /\ opCount' = opCount + 1 /\ ~lastOp'.err
        /\ lastOp'.before # <<>>
        /\ lastOp'.before[1].Frequency # lastOp'.frequency)
       => LET c == lastOp'.content
              second == DictEntry(c, lastOp'.frequency, lastOp'.pos)
          IN  /\ TerminalsFor(root', c) = {SplitString(c)}
              /\ root'[SplitString(c)] = [IsEnd |-> TRUE, Entry |-> <<second>>]
              /\ DOMAIN root' = DOMAIN root
              /\ \A p \in DOMAIN root : p # SplitString(c) => root'[p] = root[p]
              /\ DOMAIN store' = DOMAIN store
              /\ store'[c] = jsonMarshal(second).data
              /\ \A k \in DOMAIN store : k # c => store'[k] = store[k]]_vars

SecondInsertReached ==
    /\ lastOp.op = "AddWord" /\ ~lastOp.err
    /\ lastOp.content = WBeijing /\ lastOp.frequency = "600"
    /\ lastOp.before = <<DictEntry(WBeijing, "500", "ns")>>

\* The strings containsWord is asked about: the words of the model and
\* every prefix of them, whole characters or not.
Words == AddWordContents \cup {WWo, WAi, WTiananmen, WComma, WBangs, WA, WMixed}
Probes == UNION {{SubSeq(w, 1, k) : k \in 0 .. Len(w)} : w \in Words}

\* The path chars exists in t: every step of it is there.
PathExists(t, chars) == \A k \in 0 .. Len(chars) : SubSeq(chars, 1, k) \in DOMAIN t

\* C9: containsWord(content) is true iff the full path of the characters of
\* content exists in the tree and ends in a terminal node; for a word in
\* the tree and a strict prefix of it that was never inserted it is false.
ContainsIffTerminalPath ==
    /\ \A p \in Probes :
          containsWord(root, p) <=>
              /\ PathExists(root, SplitString(p))
              /\ root[SplitString(p)].IsEnd
    /\ \A w \in inserted : \A k \in 0 .. Len(w) - 1 :
          SubSeq(w, 1, k) \notin inserted => ~containsWord(root, SubSeq(w, 1, k))

PrefixOfStoredWordReached ==
    /\ dictPc = "ready"
    /\ WBeijing \in inserted /\ containsWord(root, WBeijing)
    /\ WBei \notin inserted /\ <<WBei>> \in DOMAIN root

\* C10: LearnFromText passes to AddWord no token that is one codepoint or
\* that is made of punctuation, symbol and separator characters only; of
\* the tokens 我, 爱, 北京, 天安门 it adds 北京 and 天安门 only.
LearnAddsNoNoise ==
    lastOp.op = "LearnFromText" =>
        /\ \A i \in 1 .. Len(lastOp.learned) :
              /\ Len(Runes(lastOp.learned[i])) > 1
              /\ \E j \in 1 .. Len(Runes(lastOp.learned[i])) :
                    ~IsPSZ(Runes(lastOp.learned[i])[j])
        /\ lastOp.contents = <<WWo, WAi, WBeijing, WTiananmen>> =>
              \A i \in 1 .. Len(lastOp.learned) :
                  lastOp.learned[i] \in {WBeijing, WTiananmen}

\* A LearnFromText call has just returned.
LearnFromTextReturns == lastOp'.op = "LearnFromText" /\ opCount' = opCount + 1

\* The tokens of contents that pass the filter of LearnFromText's loop and
\* are not in the tree t.
NewTokens(t, contents) ==
    {contents[i] : i \in {j \in 1 .. Len(contents) :
                            /\ ~(Len(contents[j]) <= 1 \/ IsSpecialChar(contents[j]))
                            /\ ~containsWord(t, contents[j])}}

\* C11: LearnFromText calls AddWord for no token that is in the tree when it
\* is examined, stored before the call or added earlier in the pass: no
\* content is passed to AddWord twice, none was in the tree before, and the
\* store writes of a pass that did not fail are as many as the distinct
\* tokens that were new and passed the filter, one new key each.
LearnSkipsKnownWords ==
    [][LearnFromTextReturns =>
          LET L == lastOp'.learned
              cand == NewTokens(root, lastOp'.contents)
          IN  /\ \A i \in 1 .. Len(L) : ~containsWord(root, L[i])
              /\ \A i, j \in 1 .. Len(L) : i # j => L[i] # L[j]
              /\ DOMAIN store' \ DOMAIN store \subseteq {L[i] : i \in 1 .. Len(L)}
              /\ ~lastOp'.err =>
                    /\ {L[i] : i \in 1 .. Len(L)} = cand
                    /\ Len(L) = Cardinality(cand)
                    /\ Cardinality(DOMAIN store' \ DOMAIN store) = Cardinality(cand)]_vars

RepeatedTokenLearnedOnceReached ==
    /\ lastOp.op = "LearnFromText" /\ ~lastOp.err
    /\ lastOp.contents = <<WBeijing, WComma, WBeijing>>
    /\ lastOp.learned = <<WBeijing>>
    /\ WBeijing \in DOMAIN store

\* The token is made of punctuation, symbol and separator characters only.
PurePSZ(s) == s # <<>> /\ \A i \in 1 .. Len(Runes(s)) : IsPSZ(Runes(s)[i])

\* C12: after a LearnFromText pass without error, every token that is
\* longer than one codepoint, is not punctuation, symbols and separators
\* only (a token that mixes word characters with punctuation is such a
\* token) and was not in the tree is in the tree, the store and the
\* segmenter with the entry (token, 1000.0, "nz").
LearnAddsEveryNewWord ==
    [][(LearnFromTextReturns /\ ~lastOp'.err) =>
          \A i \in 1 .. Len(lastOp'.contents) :
              LET c == lastOp'.contents[i]
              IN  (Len(Runes(c)) > 1 /\ ~PurePSZ(c) /\ ~containsWord(root, c)) =>
                     /\ containsWord(root', c)
                     /\ root'[SplitString(c)].Entry = <<DictEntry(c, "1000", "nz")>>
                     /\ c \in DOMAIN store'
                     /\ jsonUnmarshal(store'[c]).entry = DictEntry(c, "1000", "nz")
                     /\ [Text |-> c, Frequency |-> "1000", Pos |-> "nz"] \in segDict']_vars

\* An AddWord call has just returned.
AddWordReturns == lastOp'.op = "AddWord" /\ opCount' = opCount + 1

\* C13: when the store write inside AddWord fails (the entry was encoded),
\* AddWord returns an error, the tree holds the new entry at the terminal
\* node of content, the store is as it was and the segmenter is as it was.
FailedWriteLeavesTreeAhead ==
    [][(/\ AddWordReturns
        /\ lastOp'.err
        /\ ~jsonMarshal(DictEntry(lastOp'.content, lastOp'.frequency, lastOp'.pos)).err)
       => /\ containsWord(root', lastOp'.content)
          /\ root'[SplitString(lastOp'.content)].Entry
               = <<DictEntry(lastOp'.content, lastOp'.frequency, lastOp'.pos)>>
          /\ store' = store
          /\ segDict' = segDict]_vars

FailedWriteReached ==
    /\ lastOp.op = "AddWord" /\ lastOp.err
    /\ lastOp.content = WBeijing /\ lastOp.frequency = "500"
    /\ containsWord(root, WBeijing)
    /\ WBeijing \notin DOMAIN store
    /\ segDict = {}

\* The keys of the store whose value does not decode into an entry.
BadKeys == {k \in DOMAIN store : jsonUnmarshal(store[k]).err}

\* C14: New fails iff some record of the store does not decode; then no
\* engine is returned, the scan has put into the tree the records before
\* the first such record and no other, and the segmenter was not loaded.
BootstrapFailsOnBadRecord ==
    lastOp.op = "New" =>
        /\ lastOp.err <=> BadKeys # {}
        /\ lastOp.err =>
              /\ dictPc = "failed"
              /\ segDict = {}
              /\ inserted = {k \in DOMAIN store : \A b \in BadKeys : KeyLess(k, b)}
              /\ \A k \in DOMAIN store :
                    containsWord(root, k) <=> \A b \in BadKeys : KeyLess(k, b)
        /\ ~lastOp.err => dictPc = "ready"

BootstrapStoppedAtBadRecordReached ==
    /\ lastOp.op = "New" /\ lastOp.err /\ dictPc = "failed"
    /\ DOMAIN store = {WA, WMixed}
    /\ inserted = {WA}
    /\ segDict = {}

\* C15: the first AddWord failure of a LearnFromText pass ends the pass
\* with the error; the words learned before it are in the tree, the store
\* and the segmenter, and no later token is added anywhere.
LearnStopsAtFirstFailure ==
    [][LearnFromTextReturns =>
          LET L == lastOp'.learned
              f == lastOp'.failAt
              cand == NewTokens(root, lastOp'.contents)
              before == {L[i] : i \in 1 .. Len(L) - 1}
          IN  /\ lastOp'.err <=> (f >= 1 /\ f <= Cardinality(cand))
              /\ lastOp'.err =>
                    /\ Len(L) = f
                    /\ \A c \in before :
                          /\ containsWord(root', c)
                          /\ c \in DOMAIN store'
                          /\ [Text |-> c, Frequency |-> "1000", Pos |-> "nz"] \in segDict'
                    /\ DOMAIN store' = DOMAIN store \cup before
                    /\ segDict' = segDict \cup {[Text |-> c, Frequency |-> "1000", Pos |-> "nz"]
                                                : c \in before}
                    /\ \A c \in cand \ {L[i] : i \in 1 .. Len(L)} : ~containsWord(root', c)]_vars

LearnFailedAfterOneWordReached ==
    /\ lastOp.op = "LearnFromText" /\ lastOp.err /\ lastOp.failAt = 2
    /\ lastOp.learned = <<WWo, WAi>>
    /\ WWo \in DOMAIN store /\ WAi \notin DOMAIN store
    /\ ~containsWord(root, WBeijing)

\* The contents spelled by the terminal paths of the tree t.
TerminalContents(t) == {Flatten(p) : p \in {q \in DOMAIN t : t[q].IsEnd}}

\* C16: after a successful New and any AddWord and LearnFromText calls in
\* which no store write failed, the keys of the store are the contents
\* spelled by the terminal paths of the tree, and the entry stored under a
\* key equals the entry at the terminal node of that key.
StoreTreeConsistent ==
    (dictPc = "ready" /\ ~writeFailed) =>
        /\ TerminalContents(root) = DOMAIN store
        /\ \A k \in DOMAIN store :
              /\ containsWord(root, k)
              /\ root[SplitString(k)].Entry = <<jsonUnmarshal(store[k]).entry>>

\* C17: in every state of the tree, after New and after any AddWord and
\* LearnFromText calls, failed ones too, a node is terminal iff it holds
\* an entry.
TerminalIffEntry ==
    \A n \in DOMAIN root : root[n].IsEnd <=> root[n].Entry # <<>>

TerminalAndInnerNodesReached ==
    /\ lastOp.op = "AddWord" /\ lastOp.err /\ lastOp.content = WBeijing
    /\ root[SplitString(WBeijing)].IsEnd
    /\ root[SplitString(WBeijing)].Entry # <<>>
    /\ ~root[<<WBei>>].IsEnd
    /\ root[<<WBei>>].Entry = <<>>

\* C18: the root is a sentinel in every state: after New and after AddWord
\* calls with any content, the empty string too, it is not terminal and
\* holds no entry.
RootIsSentinel == ~root[<<>>].IsEnd /\ root[<<>>].Entry = <<>>

\* C19: for every terminal node, the codepoints along the path from the
\* root to the node are the codepoints of the Content of its entry, for
\* nodes made by New from a stored record and for nodes made by AddWord.
PathSpellsContent ==
    \A n \in DOMAIN root :
        root[n].IsEnd => Runes(Flatten(n)) = Runes(root[n].Entry[1].Content)

\* C20: when encoding the entry fails inside AddWord, AddWord returns an
\* error and the tree, the store and the segmenter are as before the call.
EncodeFailureAppliesNothing ==
    [][(/\ AddWordReturns
        /\ jsonMarshal(DictEntry(lastOp'.content, lastOp'.frequency, lastOp'.pos)).err)
       => /\ lastOp'.err
          /\ root' = root
          /\ store' = store
          /\ segDict' = segDict]_vars

---------------------------------------------------------------------------
\* More claims about the lifecycle manager.

\* C21: the ticker exists from the time new has returned, so whatever the
\* order in which the two goroutines start and a Close is made, listenerClose
\* stops a ticker that has been created.
CloseStopsCreatedTicker == lcPc = "stopTicker" => gcTicker.created

---------------------------------------------------------------------------
\* More claims about the dictionary cache.

\* New has just returned an engine.
Bootstrapped == lastOp.op = "New" /\ ~lastOp.err /\ dictPc = "ready"

\* The entries decoded from the records of the store.
StoredEntries == {jsonUnmarshal(store[k]).entry : k \in DOMAIN store}

---------------------------------------------------------------------------
\* Claims about the two goroutines of the lifecycle manager together.

\* C23: listenerGC does not take a tick into a GC pass, and is not inside
\* RunValueLogGC, while listenerClose has closed the handle.
NoGCPassOnClosedHandle ==
    ~(gcPc \in {"tick", "inGC"} /\ dbState = "closed")

\* C24: every call of Close returns at last, with the close result or the
\* timeout error, the first call and a call made after an earlier Close has
\* returned (the death of the process ends the call too).
EveryCloseReturns ==
    (closePc \in {"sendDone", "wait", "timeoutRet"}) ~> (closePc = "returned" \/ crashed)

\* C25: the segmenter is never ahead of the store: after New and any
\* AddWord and LearnFromText calls, failed ones too, every word given to
\* the segmenter by LoadDictStr or AddToken is a key of the store, and the
\* entry stored under it has the frequency and the tag the segmenter was
\* given for the word (the ones it was given last, when it was given the
\* word more than once).
SegmenterNotAheadOfStore ==
    dictPc = "ready" =>
        \A w \in segDict :
            /\ w.Text \in DOMAIN store
            /\ \E v \in segDict :
                  /\ v.Text = w.Text
                  /\ v.Frequency = jsonUnmarshal(store[w.Text]).entry.Frequency
                  /\ v.Pos = jsonUnmarshal(store[w.Text]).entry.Pos

====
